---- MODULE Spec2Model ----
(***************************************************************************)
(* Model of the KPI deck generator (src/app.py), a Streamlit script.       *)
(* Every user interaction reruns the script top to bottom: the uploaded    *)
(* data files are re-parsed into tables, a click on "Add card to queue"    *)
(* appends to the session card list, and a click on "Generate PPTX"        *)
(* builds one or two slides into a presentation and offers it for          *)
(* download.  Each action below is one such rerun.                         *)
(*                                                                         *)
(* An optional value (Python None or a value) is a sequence of length 0    *)
(* or 1.  A slide records the shapes the builder places on it: its title,  *)
(* the cards drawn in the grid, the number of chart shapes and the number  *)
(* of picture shapes.  Text styling and speaker notes add no card, chart   *)
(* or picture shape and are left out.                                      *)
(***************************************************************************)
EXTENDS Integers, Sequences, FiniteSets, TLC

\* Bounds of the explored sessions.
MaxFiles == 2
MaxCards == 8
MaxImgs == 2
MaxTemplateSlides == 1

\* Number of grid positions of a slide, and of screenshots placed per slide.
GridSlots == 4
ImgSlots == 1

Min(a, b) == IF a < b THEN a ELSE b
Max(a, b) == IF a > b THEN a ELSE b

\* Python slices s[:k] and s[k:] for k >= 0.
Prefix(s, k) == SubSeq(s, 1, Min(k, Len(s)))
Suffix(s, k) == SubSeq(s, Min(k, Len(s)) + 1, Len(s))

Range(s) == {s[i] : i \in 1..Len(s)}

----------------------------------------------------------------------------
\* Inputs the user can supply.

\* Data files: name, whether the parser reads the content without raising,
\* and the columns of the parsed table with the ones castable to float.
DataFileUniverse ==
    { [name |-> "sales.CSV",   readable |-> TRUE,
       columns |-> <<"region", "sales">>, numeric |-> {"sales"}],
      [name |-> "empty.json",  readable |-> TRUE,
       columns |-> <<>>, numeric |-> {}],
      [name |-> "broken.json", readable |-> FALSE,
       columns |-> <<>>, numeric |-> {}],
      [name |-> "notes.txt",   readable |-> TRUE,
       columns |-> <<>>, numeric |-> {}] }

\* file.name.lower(), as the extension that name.endswith() then tests.
LowerExt(name) ==
    CASE name = "sales.CSV"   -> "csv"
      [] name = "empty.json"  -> "json"
      [] name = "broken.json" -> "json"
      [] name = "notes.txt"   -> "txt"

\* Screenshots: ok says whether the image opens, converts and embeds.
ImgUniverse ==
    { [name |-> "shot.png", ok |-> TRUE],
      [name |-> "corrupt.png", ok |-> FALSE] }

\* Values of the card text inputs; the first is the default of each widget.
DefaultHeadline == "Tracking Rate"
Headlines == {DefaultHeadline, "Exceptions"}

VARIABLES
    data_files,     \* uploaded data files, in upload order
    screenshots,    \* uploaded screenshots, in upload order
    template_file,  \* optional template: <<n>> is a template holding n slides
    headline,       \* current value of the card headline text input
    cards,          \* st.session_state.cards
    tables,         \* tables loaded by this rerun
    warnings,       \* st.warning calls of this rerun
    clicked,        \* the button that triggered this rerun
    run,            \* <<locals of the generate block>> when it ran
    base_slides,    \* slides the presentation held when it was opened
    slides,         \* slides added by build_slide in this rerun
    download        \* TRUE when the download button is shown

vars == <<data_files, screenshots, template_file, headline, cards, tables,
          warnings, clicked, run, base_slides, slides, download>>

----------------------------------------------------------------------------
\* load_table and the table loading loop.

load_table_unchecked(file) ==
    IF LowerExt(file.name) \in {"csv", "xlsx", "xls", "json"}
    THEN [df |-> <<[src |-> file.name, columns |-> file.columns,
                    numeric |-> file.numeric]>>,
          warning |-> <<>>]
    ELSE [df |-> <<>>, warning |-> << <<"Unsupported table file", file.name>> >>]

load_table(file) ==
    IF LowerExt(file.name) \in {"csv", "xlsx", "xls", "json"}
    THEN IF file.readable
         THEN [df |-> <<[src |-> file.name, columns |-> file.columns,
                         numeric |-> file.numeric]>>,
               warning |-> <<>>]
         ELSE [df |-> <<>>, warning |-> << <<"Could not read", file.name>> >>]
    ELSE [df |-> <<>>, warning |-> << <<"Unsupported table file", file.name>> >>]

RECURSIVE load_tables(_)
load_tables(files) ==
    IF files = <<>> THEN [tables |-> <<>>, warnings |-> <<>>]
    ELSE LET r == load_table(Head(files))
             rest == load_tables(Tail(files))
         IN [tables |-> r.df \o rest.tables,
             warnings |-> r.warning \o rest.warnings]

\* format_func of the table selectbox: the label shown for option i.
TableLabel(i) == data_files[i].name

----------------------------------------------------------------------------
\* The generate block.

create_presentation(base_template) ==
    IF base_template # <<>> THEN base_template[1] ELSE 0

use_two_slides(total_cards, total_imgs, max_slides) ==
    (total_cards + total_imgs > 4) /\ (max_slides >= 2)

half_cards_even(total_cards) == (total_cards + 1) \div 2

half_cards(total_cards) == Max(4, (total_cards + 1) \div 2)

half_imgs(total_imgs) == Max(1, (total_imgs + 1) \div 2)

\* cards_subset[:4], the cards drawn into the grid.
card_grid_all(cards_subset) == cards_subset

card_grid_short(cards_subset) == Prefix(cards_subset, GridSlots - 1)

card_grid(cards_subset) == Prefix(cards_subset, GridSlots)

\* imgs_subset[:1], the screenshots the builder tries to place.
img_loop_all(imgs_subset) == imgs_subset

img_loop(imgs_subset) == Prefix(imgs_subset, ImgSlots)

\* add_chart: the float cast of the Y column raises before any shape is added.
add_chart(cfg) ==
    IF cfg.y \in cfg.df.numeric
    THEN [shapes |-> 1, warnings |-> <<>>, raised |-> FALSE]
    ELSE [shapes |-> 0, warnings |-> <<>>, raised |-> TRUE]

\* try: add_chart(...) except Exception: st.warning(...)
try_add_chart_reraise(cfg) == add_chart(cfg)

try_add_chart(cfg) ==
    LET r == add_chart(cfg)
    IN IF r.raised
       THEN [shapes |-> r.shapes,
             warnings |-> << <<"Chart could not be added", cfg.y>> >>,
             raised |-> FALSE]
       ELSE r

\* try: Image.open(img)...; add_screenshot(...) except Exception: st.warning(...)
RECURSIVE try_add_screenshots(_)
try_add_screenshots(imgs) ==
    IF imgs = <<>> THEN [shapes |-> 0, warnings |-> <<>>, raised |-> FALSE]
    ELSE LET rest == try_add_screenshots(Tail(imgs))
         IN IF Head(imgs).ok
            THEN [rest EXCEPT !.shapes = @ + 1]
            ELSE [rest EXCEPT !.warnings =
                      << <<"Could not embed", Head(imgs).name>> >> \o @]

build_slide(title_str, cards_subset, imgs_subset, chart_cfg) ==
    LET chart == IF chart_cfg # <<>>
                 THEN try_add_chart(chart_cfg[1])
                 ELSE [shapes |-> 0, warnings |-> <<>>, raised |-> FALSE]
        imgs == IF chart.raised
                THEN [shapes |-> 0, warnings |-> <<>>, raised |-> FALSE]
                ELSE try_add_screenshots(img_loop(imgs_subset))
    IN [slide |-> [title |-> title_str,
                   cards |-> card_grid(cards_subset),
                   charts |-> chart.shapes,
                   images |-> imgs.shapes],
        warnings |-> chart.warnings \o imgs.warnings,
        raised |-> chart.raised \/ imgs.raised]

\* chart_cfg is set when chart_df is not None and x_col and y_col.
chart_config(chart_df, x_col, y_col) ==
    IF chart_df # <<>> /\ x_col # <<>> /\ y_col # <<>>
    THEN <<[df |-> chart_df[1], x |-> x_col[1], y |-> y_col[1]]>>
    ELSE <<>>

\* The chart_cfg argument of the second build_slide call (chart_cfg=None).
second_chart_cfg_same(chart_cfg) == chart_cfg

second_chart_cfg(chart_cfg) == <<>>

\* What a selectbox over the columns of the table can return.
ColumnChoices(df) ==
    IF df.columns = <<>> THEN {<<>>} ELSE {<<c>> : c \in Range(df.columns)}

----------------------------------------------------------------------------
Init ==
    /\ data_files = <<>>
    /\ screenshots = <<>>
    /\ template_file = <<>>
    /\ headline = DefaultHeadline
    /\ cards = <<>>
    /\ tables = <<>>
    /\ warnings = <<>>
    /\ clicked = "none"
    /\ run = <<>>
    /\ base_slides = 0
    /\ slides = <<>>
    /\ download = FALSE

\* A rerun in which the generate button is not the trigger: the tables are
\* loaded again and no deck is built.
Rerun(files) ==
    /\ tables' = load_tables(files).tables
    /\ warnings' = load_tables(files).warnings
    /\ run' = <<>>
    /\ base_slides' = 0
    /\ slides' = <<>>
    /\ download' = FALSE

UploadDataFile ==
    /\ Len(data_files) < MaxFiles
    /\ \E f \in DataFileUniverse \ Range(data_files) :
          data_files' = Append(data_files, f)
    /\ clicked' = "none"
    /\ Rerun(data_files')
    /\ UNCHANGED <<screenshots, template_file, headline, cards>>

RemoveDataFile ==
    /\ \E i \in 1..Len(data_files) :
          data_files' = SubSeq(data_files, 1, i - 1)
                          \o SubSeq(data_files, i + 1, Len(data_files))
    /\ clicked' = "none"
    /\ Rerun(data_files')
    /\ UNCHANGED <<screenshots, template_file, headline, cards>>

UploadScreenshot ==
    /\ Len(screenshots) < MaxImgs
    /\ \E img \in ImgUniverse : screenshots' = Append(screenshots, img)
    /\ clicked' = "none"
    /\ Rerun(data_files)
    /\ UNCHANGED <<data_files, template_file, headline, cards>>

UploadTemplate ==
    /\ \E n \in 0..MaxTemplateSlides :
          /\ template_file # <<n>>
          /\ template_file' = <<n>>
    /\ clicked' = "none"
    /\ Rerun(data_files)
    /\ UNCHANGED <<data_files, screenshots, headline, cards>>

TypeHeadline ==
    /\ \E h \in Headlines \ {headline} : headline' = h
    /\ clicked' = "none"
    /\ Rerun(data_files)
    /\ UNCHANGED <<data_files, screenshots, template_file, cards>>

AddCardFront ==
    /\ Len(cards) < MaxCards
    /\ cards' = <<[headline |-> headline, value |-> "90%",
                   note |-> "Consistent improvement vs last month"]>> \o cards
    /\ clicked' = "add_card"
    /\ Rerun(data_files)
    /\ UNCHANGED <<data_files, screenshots, template_file, headline>>

AddCard ==
    /\ Len(cards) < MaxCards
    /\ cards' = Append(cards, [headline |-> headline, value |-> "90%",
                               note |-> "Consistent improvement vs last month"])
    /\ clicked' = "add_card"
    /\ Rerun(data_files)
    /\ UNCHANGED <<data_files, screenshots, template_file, headline>>

\* The locals of the generate block for the given widget values.
GenerateLocals(max_slides, chart_df, x_col, y_col) ==
    LET total_cards == Len(cards)
        total_imgs == Len(screenshots)
        two == use_two_slides(total_cards, total_imgs, max_slides)
    IN [max_slides |-> max_slides,
        total_cards |-> total_cards,
        total_imgs |-> total_imgs,
        use_two_slides |-> two,
        cards1 |-> IF two THEN Prefix(cards, half_cards(total_cards)) ELSE cards,
        cards2 |-> IF two THEN Suffix(cards, half_cards(total_cards)) ELSE <<>>,
        imgs1 |-> IF two THEN Prefix(screenshots, half_imgs(total_imgs))
                         ELSE screenshots,
        imgs2 |-> IF two THEN Suffix(screenshots, half_imgs(total_imgs))
                         ELSE <<>>,
        chart_df |-> chart_df, x_col |-> x_col, y_col |-> y_col,
        chart_cfg |-> chart_config(chart_df, x_col, y_col)]

GenerateWith(max_slides, chart_df, x_col, y_col) ==
    LET loaded == load_tables(data_files)
        l == GenerateLocals(max_slides, chart_df, x_col, y_col)
        s1 == build_slide("title", l.cards1, l.imgs1, l.chart_cfg)
        s2 == build_slide("title (cont.)", l.cards2, l.imgs2,
                          second_chart_cfg(l.chart_cfg))
        second == l.use_two_slides /\ ~s1.raised
        raised == s1.raised \/ (second /\ s2.raised)
    IN /\ clicked' = "generate"
       /\ tables' = loaded.tables
       /\ run' = <<l>>
       /\ base_slides' = create_presentation(template_file)
       /\ slides' = IF second THEN <<s1.slide, s2.slide>> ELSE <<s1.slide>>
       /\ warnings' = loaded.warnings \o s1.warnings
                        \o (IF second THEN s2.warnings ELSE <<>>)
       /\ download' = ~raised
       /\ UNCHANGED <<data_files, screenshots, template_file, headline, cards>>

Generate ==
    \E max_slides \in 1..2 :
       IF tables = <<>>
       THEN GenerateWith(max_slides, <<>>, <<>>, <<>>)
       ELSE \E df_idx \in 1..Len(tables) :
               \E x_col \in ColumnChoices(tables[df_idx]),
                  y_col \in ColumnChoices(tables[df_idx]) :
                  GenerateWith(max_slides, <<tables[df_idx]>>, x_col, y_col)

\* Sessions that use data files and screenshots, with the card text inputs
\* left at their defaults and no template.
Next ==
    \/ UploadDataFile
    \/ RemoveDataFile
    \/ UploadScreenshot
    \/ AddCard
    \/ Generate

Spec == Init /\ [][Next]_vars

\* Sessions that vary the card text, without data files or template.
NextCards ==
    \/ UploadScreenshot
    \/ TypeHeadline
    \/ AddCard
    \/ Generate

SpecCards == Init /\ [][NextCards]_vars

\* Sessions that upload a base template, without data files.
NextTemplate ==
    \/ UploadTemplate
    \/ UploadScreenshot
    \/ AddCard
    \/ Generate

SpecTemplate == Init /\ [][NextTemplate]_vars

----------------------------------------------------------------------------
\* Properties.

Generated == clicked = "generate"

Abs(n) == IF n < 0 THEN -n ELSE n

\* A data file that load_table is specified to turn into a table.
Loadable(f) ==
    /\ LowerExt(f.name) \in {"csv", "xlsx", "xls", "json"}
    /\ f.readable

LoadWarningKinds == {"Could not read", "Unsupported table file"}

\* C1: with max-slides = 1, generation adds exactly one slide and draws
\* exactly min(N, 4) of the N queued cards on it, whatever the number of
\* screenshots.
C1_OneSlideMinCards ==
    (Generated /\ run[1].max_slides = 1) =>
        /\ download
        /\ Len(slides) = 1
        /\ Len(slides[1].cards) = Min(Len(cards), 4)

C1_Witness ==
    /\ Generated
    /\ run[1].max_slides = 1
    /\ Len(cards) > 4
    /\ Len(screenshots) > 0
    /\ Len(slides) = 1
    /\ Len(slides[1].cards) = 4

\* C2: with max-slides = 2 and 5 <= N <= 8 queued cards, generation builds
\* two slides, each with at most 4 cards, whose cards taken together are the
\* N queued cards: none is dropped.
C2_TwoSlidesKeepAllCards ==
    (Generated /\ run[1].max_slides = 2 /\ Len(cards) \in 5..8) =>
        /\ Len(slides) = 2
        /\ Len(slides[1].cards) <= 4
        /\ Len(slides[2].cards) <= 4
        /\ Len(slides[1].cards) + Len(slides[2].cards) = Len(cards)
        /\ slides[1].cards \o slides[2].cards = cards

C2_Witness ==
    /\ Generated
    /\ run[1].max_slides = 2
    /\ Len(cards) = 6
    /\ Len(slides) = 2
    /\ Len(slides[1].cards) = 4
    /\ Len(slides[2].cards) = 2
    /\ slides[1].cards # slides[2].cards \o slides[2].cards

\* C3: every slide the generator builds holds at most four cards, at most
\* one chart and at most one image.
C3_SlideCapacity ==
    Generated =>
        \A i \in 1..Len(slides) :
            /\ Len(slides[i].cards) <= 4
            /\ slides[i].charts <= 1
            /\ slides[i].images <= 1

C3_Witness ==
    /\ Generated
    /\ Len(screenshots) >= 2
    /\ \E i \in 1..Len(slides) :
          /\ Len(slides[i].cards) = 4
          /\ slides[i].charts = 1
          /\ slides[i].images = 1
    /\ ~run[1].use_two_slides
    /\ Len(cards) > 4

\* C4: the produced file contains exactly two slides when card count plus
\* image count exceeds 4 and max-slides = 2, and exactly one slide otherwise,
\* also when a base template is uploaded.
C4_FileHasOneOrTwoSlides ==
    (Generated /\ download) =>
        base_slides + Len(slides) =
            IF Len(cards) + Len(screenshots) > 4 /\ run[1].max_slides = 2
            THEN 2 ELSE 1

\* C5 as stated: when two slides are used the cards are split into a prefix
\* and the remaining suffix, the images likewise, and the two parts of each
\* list differ in size by at most one.
C5_HalvesDifferByAtMostOne ==
    (Generated /\ run[1].use_two_slides) =>
        /\ run[1].cards1 \o run[1].cards2 = cards
        /\ run[1].imgs1 \o run[1].imgs2 = screenshots
        /\ Abs(Len(run[1].cards1) - Len(run[1].cards2)) <= 1
        /\ Abs(Len(run[1].imgs1) - Len(run[1].imgs2)) <= 1

\* C5 amended: when two slides are used the N cards are cut after the first
\* max(4, ceil(N/2)) of them (after all of them when N is smaller) and the M
\* images after the first max(1, ceil(M/2)); each list is the prefix followed
\* by the suffix; the image parts differ in size by at most one, and the card
\* parts differ by at most one exactly when N <= 1 or N >= 7.
C5_SplitFillsFirstSlide ==
    (Generated /\ run[1].use_two_slides) =>
        LET N == Len(cards)
            M == Len(screenshots)
            cut == Min(N, Max(4, (N + 1) \div 2))
            icut == Min(M, Max(1, (M + 1) \div 2))
        IN /\ run[1].cards1 = SubSeq(cards, 1, cut)
           /\ run[1].cards2 = SubSeq(cards, cut + 1, N)
           /\ run[1].imgs1 = SubSeq(screenshots, 1, icut)
           /\ run[1].imgs2 = SubSeq(screenshots, icut + 1, M)
           /\ Abs(Len(run[1].imgs1) - Len(run[1].imgs2)) <= 1
           /\ (Abs(Len(run[1].cards1) - Len(run[1].cards2)) <= 1)
                 <=> (N <= 1 \/ N >= 7)

C5_Witness ==
    /\ Generated
    /\ run[1].use_two_slides
    /\ Len(run[1].cards1) = 4
    /\ Len(run[1].cards2) = 1
    /\ run[1].cards1[4] # run[1].cards2[1]
    /\ Len(run[1].imgs1) = 1
    /\ Len(run[1].imgs2) = 1
    /\ run[1].imgs1 # run[1].imgs2

\* C6: a chart or image failure never aborts generation: the deck is offered
\* for download with all its slides, each with its title and its cards; a
\* chart or image is missing from a slide only if that item failed, and each
\* failure leaves a warning.
C6_FailuresAreSkipped ==
    Generated =>
        LET l == run[1]
            subsets == IF l.use_two_slides
                       THEN << <<l.cards1, l.imgs1>>, <<l.cards2, l.imgs2>> >>
                       ELSE << <<l.cards1, l.imgs1>> >>
            titles == <<"title", "title (cont.)">>
            chartOk == l.chart_cfg # <<>> /\ l.chart_cfg[1].y \in l.chart_cfg[1].df.numeric
        IN /\ download
           /\ Len(slides) = Len(subsets)
           /\ \A i \in 1..Len(slides) :
                 /\ slides[i].title = titles[i]
                 /\ slides[i].cards = SubSeq(subsets[i][1], 1, Min(4, Len(subsets[i][1])))
                 /\ slides[i].images =
                       IF subsets[i][2] # <<>> /\ subsets[i][2][1].ok THEN 1 ELSE 0
                 /\ (subsets[i][2] # <<>> /\ ~subsets[i][2][1].ok) =>
                       <<"Could not embed", subsets[i][2][1].name>> \in Range(warnings)
           /\ slides[1].charts = IF chartOk THEN 1 ELSE 0
           /\ (l.chart_cfg # <<>> /\ ~chartOk) =>
                 <<"Chart could not be added", l.chart_cfg[1].y>> \in Range(warnings)

C6_Witness ==
    /\ Generated
    /\ download
    /\ Len(slides) = 2
    /\ run[1].chart_cfg # <<>>
    /\ slides[1].charts = 0
    /\ run[1].imgs1 # <<>>
    /\ ~run[1].imgs1[1].ok
    /\ slides[1].images = 0
    /\ Len(slides[1].cards) = 4
    /\ Len(slides[2].cards) > 0
    /\ slides[2].images = 1
    /\ <<"Could not embed", "corrupt.png">> \in Range(warnings)
    /\ <<"Chart could not be added", "region">> \in Range(warnings)

\* C7: a data file with an unsupported extension, or whose parsing raises,
\* yields a warning and no table, and the loaded tables are exactly the
\* tables of the other files, one per file, in upload order.
C7_BadFilesAreSkipped ==
    LET good == SelectSeq(data_files, Loadable)
    IN /\ Len(tables) = Len(good)
       /\ \A i \in 1..Len(good) :
             /\ tables[i].src = good[i].name
             /\ tables[i].columns = good[i].columns
       /\ \A i \in 1..Len(data_files) :
             ~Loadable(data_files[i]) <=>
                 \E w \in Range(warnings) :
                    w[1] \in LoadWarningKinds /\ w[2] = data_files[i].name

C7_Witness ==
    /\ Len(data_files) = 2
    /\ ~data_files[1].readable
    /\ Loadable(data_files[2])
    /\ Len(tables) = 1
    /\ tables[1].src = data_files[2].name
    /\ <<"Could not read", data_files[1].name>> \in Range(warnings)

\* C8: without a chart mapping (no table loaded, or no X or Y column chosen)
\* no slide gets a chart; a chart appears only with a mapping, and only on
\* the first slide.
C8_ChartOnlyWhenMapped ==
    Generated =>
        \A i \in 1..Len(slides) :
            slides[i].charts > 0 =>
                /\ i = 1
                /\ run[1].chart_df # <<>>
                /\ run[1].x_col # <<>>
                /\ run[1].y_col # <<>>

C8_Witness ==
    /\ Generated
    /\ tables # <<>>
    /\ run[1].chart_df # <<>>
    /\ run[1].x_col = <<>>
    /\ Len(slides) = 2
    /\ \A i \in 1..Len(slides) : slides[i].charts = 0

\* C9: add-card appends exactly one card, the one typed, at the end of the
\* session card list; generate leaves the list unchanged; nothing else
\* changes the list.
C9_CardsAppendOnly ==
    [][ /\ (clicked' = "add_card") =>
              /\ Len(cards') = Len(cards) + 1
              /\ SubSeq(cards', 1, Len(cards)) = cards
              /\ cards'[Len(cards')].headline = headline
        /\ (clicked' # "add_card") => cards' = cards ]_vars

C9_Witness ==
    /\ Generated
    /\ Len(cards) >= 5
    /\ cards[1].headline # cards[2].headline
    /\ Len(slides) = 2

\* C10: the name shown for each selectable table is the name of the file the
\* table was parsed from.
C10_LabelNamesSourceFile ==
    \A i \in 1..Len(tables) : TableLabel(i) = tables[i].src

====
